---------------------------- MODULE Spec2Model ----------------------------
(***************************************************************************)
(* Shell Tac Toe: the WebSocket game server of server.js as a state        *)
(* machine.  One action per message handler (create, join, place, useMine, *)
(* useShovel, useFlip, restart, reconnect), one for the close event and    *)
(* one for the cleanup timer.  The event loop runs each handler to         *)
(* completion, so each handler is one atomic step.                         *)
(***************************************************************************)
EXTENDS Integers, Sequences, FiniteSets, TLC

(***************************************************************************)
(* Bounds of the model (not program constants).                            *)
(***************************************************************************)
\* sockets that ever connect; each closes at most once
NumConns == 3
\* matches that are ever created in Spec (generateId is taken to return unused ids)
MaxGames == 1
\* game ids that requests may name and that any specification may hand out
MaxIds == 2
\* requests name the cells 0..MaxCell (and one out-of-range cell)
MaxCell == 4
\* accepted moves (place, useMine, useShovel, useFlip) of one behaviour that do not
\* end a round; a move that ends the round is always followed
MaxMoves == 4
\* connections lost, accepted reconnects and rejected requests of one behaviour
MaxNet == 1
\* draws of generateRandomShell that may return any kind; the later draws of a
\* behaviour return the last kind of SHELL_TYPES
MaxDraws == 2

(***************************************************************************)
(* Program constants.                                                      *)
(***************************************************************************)
\* Array(9).fill(0)
NumCells == 9
\* WebSocket.OPEN, the readyState sendJSON and tryCleanupGame test for
OPEN == 1
CLOSING == OPEN + 1
CLOSED == OPEN + 2

Cells == 0 .. (NumCells - 1)
Symbols == {"X", "O"}
\* an empty cell (0 in the source)
Empty == "-"
\* null / undefined of the source, for a symbol- or string-valued field
Null == "null"
\* null / undefined for a socket reference or a game id
NoWs == 0
NoGame == 0

Conns == 1 .. NumConns
GameIds == 1 .. MaxIds
\* the cells a request may name: NumCells stands for every out-of-range value
ReqCells == (0 .. MaxCell) \cup {NumCells}

WIN_LINES ==
  << <<0, 1, 2>>, <<3, 4, 5>>, <<6, 7, 8>>,
     <<0, 3, 6>>, <<1, 4, 7>>, <<2, 5, 8>>,
     <<0, 4, 8>>, <<2, 4, 6>> >>

SHELL_TYPES == <<"mine", "shovel", "flip">>

\* the values generateRandomShell can return
ShellKinds == {SHELL_TYPES[i] : i \in 1 .. Len(SHELL_TYPES)}

VARIABLES
  games,    \* the registry: a function from the live game ids to game records
  conns,    \* each socket: readyState, inbound, _gameId, _symbol, _userId
  timers,   \* per game id, the pending setTimeout(tryCleanupGame) callbacks, oldest first;
            \* each records whether a seat had a live connection when it was set
  nextId,   \* how many game ids generateId has handed out
  budget,   \* moves and network events still allowed (bounds the exploration)
  held,     \* per game and seat: the last gameState / gameOver payload built for it
  last      \* the event handled last and how it ended

vars == <<games, conns, timers, nextId, budget, held, last>>

(***************************************************************************)
(* Pure helpers.                                                           *)
(***************************************************************************)
opponent(sym) == IF sym = "X" THEN "O" ELSE "X"

\* Array.prototype.indexOf on a sequence, 0 when absent (the source's -1)
IndexOf(s, x) ==
  IF \E i \in 1 .. Len(s) : s[i] = x
  THEN CHOOSE i \in 1 .. Len(s) : s[i] = x /\ \A j \in 1 .. (i - 1) : s[j] # x
  ELSE 0

\* Array.prototype.splice(i, 1)
Splice(s, i) == [j \in 1 .. (Len(s) - 1) |-> IF j < i THEN s[j] ELSE s[j + 1]]

\* Array.prototype.includes
Includes(s, x) == \E i \in 1 .. Len(s) : s[i] = x

NoWin == [winner |-> Null, cells |-> <<>>]

\* checkWin's test of a line, with the bug of leaving out board[a] !== 0
LineWinsNoEmptyTest(board, l) ==
  /\ board[WIN_LINES[l][1]] = board[WIN_LINES[l][2]]
  /\ board[WIN_LINES[l][2]] = board[WIN_LINES[l][3]]

LineWins(board, l) ==
  /\ board[WIN_LINES[l][1]] # Empty
  /\ board[WIN_LINES[l][1]] = board[WIN_LINES[l][2]]
  /\ board[WIN_LINES[l][2]] = board[WIN_LINES[l][3]]

\* the first line of WIN_LINES that is held by one symbol, or null
checkWin(board) ==
  IF \E l \in 1 .. Len(WIN_LINES) : LineWins(board, l)
  THEN LET l == CHOOSE k \in 1 .. Len(WIN_LINES) :
                  /\ LineWins(board, k)
                  /\ \A j \in 1 .. (k - 1) : ~LineWins(board, j)
       IN  [winner |-> board[WIN_LINES[l][1]], cells |-> WIN_LINES[l]]
  ELSE NoWin

NoPlayer == [ws |-> NoWs, username |-> Null, userId |-> Null]

createGameState(id) ==
  [ id           |-> id,
    board        |-> [c \in Cells |-> Empty],
    shells       |-> [s \in Symbols |-> <<>>],
    mines        |-> [s \in Symbols |-> <<>>],
    currentTurn  |-> Null,
    players      |-> [s \in Symbols |-> NoPlayer],
    gameOver     |-> FALSE,
    firstPlayer  |-> Null,
    winner       |-> Null,
    winCells     |-> <<>>,
    restartVotes |-> [s \in Symbols |-> FALSE] ]

\* the userId a client sends (msg.userId, or the one generateUserId issued to it):
\* odd sockets belong to one browser, even sockets to another
UserIdOf(ws) == IF ws % 2 = 1 THEN "u1" ELSE "u2"

\* the username a client sends
UsernameOf(ws) == IF ws % 2 = 1 THEN "ann" ELSE "bob"

(***************************************************************************)
(* View projection: the payloads the server builds for a seat.             *)
(***************************************************************************)
NoMsg == [type |-> Null]

PlayerNames(game) ==
  [s \in Symbols |-> IF game.players[s] # NoPlayer THEN game.players[s].username ELSE Null]

buildGameState(game, forSymbol) ==
  [ type              |-> "gameState",
    board             |-> game.board,
    currentTurn       |-> game.currentTurn,
    gameOver          |-> game.gameOver,
    yourSymbol        |-> forSymbol,
    yourShells        |-> game.shells[forSymbol],
    opponentShellCount |-> Len(game.shells[opponent(forSymbol)]),
    yourMines         |-> game.mines[forSymbol],
    players           |-> PlayerNames(game) ]

\* the gameOver payload of broadcastGameOver and of the reconnect replay
GameOverPayload(game, reason, sym) ==
  [ type       |-> "gameOver",
    winner     |-> game.winner,
    winCells   |-> game.winCells,
    reason     |-> reason,
    board      |-> game.board,
    shells     |-> game.shells,
    mines      |-> game.mines,
    players    |-> PlayerNames(game),
    yourSymbol |-> sym ]

\* what a seat holds: its latest gameState and, if one came after it, the gameOver
NoView == [gs |-> NoMsg, go |-> NoMsg]

\* a connection that receives msg after holding v
Receive(v, msg) ==
  IF msg.type = "gameState" THEN [gs |-> msg, go |-> NoMsg]
  ELSE IF msg.type = "gameOver" THEN [v EXCEPT !.go = msg]
  ELSE v

\* broadcastState, seen from the seats: h is the game's entry of held.  The source
\* sends only to a seat whose socket is attached; held records the payload of every
\* filled seat, which is what a connection that never dropped has received.
broadcastState(h, game) ==
  [s \in Symbols |->
     IF game.players[s] # NoPlayer THEN Receive(h[s], buildGameState(game, s)) ELSE h[s]]

\* broadcastGameOver, with the bug of disarming the mines when the round ends
broadcastGameOverDisarms(game, winner, winCells) ==
  [game EXCEPT !.gameOver = TRUE, !.winner = winner, !.winCells = winCells,
               !.mines = [s \in Symbols |-> <<>>]]

\* broadcastGameOver: the state it writes ...
broadcastGameOver(game, winner, winCells) ==
  [game EXCEPT !.gameOver = TRUE, !.winner = winner, !.winCells = winCells]

\* ... and the payload it sends to each filled seat
SendGameOver(h, game, reason) ==
  [s \in Symbols |->
     IF game.players[s] # NoPlayer
     THEN Receive(h[s], GameOverPayload(game, reason, s))
     ELSE h[s]]

boardFull(board) == \A c \in Cells : board[c] # Empty

\* checkGameEnd, with the bug of leaving out the test of the full board
checkGameEndNoDraw(game) ==
  LET win == checkWin(game.board) IN
  IF win # NoWin THEN broadcastGameOver(game, win.winner, win.cells) ELSE game

\* checkGameEnd: the game after the evaluation (gameOver set when it ended)
checkGameEnd(game) ==
  LET win == checkWin(game.board) IN
  IF win # NoWin THEN broadcastGameOver(game, win.winner, win.cells)
  ELSE IF boardFull(game.board) THEN broadcastGameOver(game, Null, <<>>)
  ELSE game

\* the reason checkGameEnd passes to broadcastGameOver
EndReason(game) == IF checkWin(game.board) # NoWin THEN "three_in_a_row" ELSE "draw"

\* advanceTurn, with the bug of leaving the turn where it is
advanceTurnStays(game) == game

advanceTurn(game) == [game EXCEPT !.currentTurn = opponent(game.currentTurn)]

\* processPlacement, with the bug of leaving the mine that went off armed
processPlacementKeepsMine(game, symbol, cell) ==
  IF IndexOf(game.mines[opponent(symbol)], cell) # 0
  THEN [game EXCEPT
          !.board = [i \in Cells |-> IF game.board[i] = symbol THEN Empty ELSE game.board[i]]]
  ELSE [game EXCEPT !.board[cell] = symbol]

\* processPlacement: the game after the coin is placed or the mine has gone off
processPlacement(game, symbol, cell) ==
  LET opp == opponent(symbol)
      mineIndex == IndexOf(game.mines[opp], cell)
  IN  IF mineIndex # 0
      THEN [game EXCEPT
              !.board = [i \in Cells |-> IF game.board[i] = symbol THEN Empty ELSE game.board[i]],
              !.mines[opp] = Splice(game.mines[opp], mineIndex)]
      ELSE [game EXCEPT !.board[cell] = symbol]

mineTriggered(game, symbol, cell) == IndexOf(game.mines[opponent(symbol)], cell) # 0

(***************************************************************************)
(* The event handled last.  A rejected request records only its type and   *)
(* the reason of the error response; an accepted one also the game, the    *)
(* acting symbol and the cell; a reconnect the payloads it replayed.       *)
(***************************************************************************)
Event(type, res, reason, game, symbol, cell, dv) ==
  [type |-> type, res |-> res, reason |-> reason, game |-> game,
   symbol |-> symbol, cell |-> cell, dv |-> dv]

Accepted(type, reason, game, symbol, cell) ==
  Event(type, "ok", reason, game, symbol, cell, NoView)

\* sendError / reconnectFailed / actionResult{success: false, reason: 'wouldWin'}
Rejected(type, reason) ==
  Event(type, "rejected", reason, NoGame, Null, NumCells, NoView)

\* a handler that answers with an error and returns
Reject(type, reason) ==
  /\ budget.net > 0
  /\ budget' = [budget EXCEPT !.net = @ - 1]
  /\ last' = Rejected(type, reason)
  /\ UNCHANGED <<games, conns, timers, nextId, held>>

\* isNaN(cell) || cell < 0 || cell > 8
InvalidCell(cell) == cell \notin Cells

\* a 'message' event can fire on ws: the socket is open, or the server has closed
\* it (kicked) and the peer's close frame has not arrived yet
CanSend(ws) == conns[ws].inbound

\* games.get(ws._gameId) found a game
HasGame(ws) == conns[ws].gameId \in DOMAIN games

Bind(ws, gameId, symbol, userId) ==
  [conns EXCEPT ![ws].gameId = gameId, ![ws].symbol = symbol, ![ws].userId = userId]

(***************************************************************************)
(* Initial state: the server has started and the registry is empty.  The   *)
(* 'connection' event only installs the handlers, so the sockets that will *)
(* connect are there from the start, OPEN and bound to nothing.            *)
(***************************************************************************)
Init ==
  /\ games = <<>>
  /\ conns = [c \in Conns |->
               [readyState |-> OPEN, inbound |-> TRUE, gameId |-> NoGame,
                symbol |-> Null, userId |-> Null]]
  /\ timers = [g \in GameIds |-> <<>>]
  /\ nextId = 0
  /\ budget = [moves |-> MaxMoves, net |-> MaxNet, draws |-> MaxDraws]
  /\ held = <<>>
  /\ last = Accepted("listen", "", NoGame, Null, NumCells)

(***************************************************************************)
(* case 'create'                                                           *)
(***************************************************************************)
Create(ws, creatorSymbol) ==
  /\ CanSend(ws)
  /\ LET gameId == nextId + 1
         game == [createGameState(gameId) EXCEPT
                    !.players[creatorSymbol] =
                       [ws |-> ws, username |-> UsernameOf(ws), userId |-> UserIdOf(ws)]]
     IN  /\ games' = (gameId :> game) @@ games
         /\ held' = (gameId :> [s \in Symbols |-> NoView]) @@ held
         /\ conns' = Bind(ws, gameId, creatorSymbol, UserIdOf(ws))
         /\ nextId' = gameId
         /\ last' = Accepted("create", "", gameId, creatorSymbol, NumCells)
  /\ UNCHANGED <<timers, budget>>

(***************************************************************************)
(* case 'join'                                                             *)
(***************************************************************************)
Join(ws, gameId, firstPlayer) ==
  /\ CanSend(ws)
  /\ IF gameId \notin DOMAIN games THEN Reject("join", "Game not found")
     ELSE IF games[gameId].players["X"] # NoPlayer /\ games[gameId].players["O"] # NoPlayer
     THEN Reject("join", "Game is full")
     ELSE
       LET joinerSymbol == IF games[gameId].players["X"] # NoPlayer THEN "O" ELSE "X"
           game == [games[gameId] EXCEPT
                      !.players[joinerSymbol] =
                         [ws |-> ws, username |-> UsernameOf(ws), userId |-> UserIdOf(ws)],
                      !.firstPlayer = firstPlayer,
                      !.currentTurn = firstPlayer]
       IN  /\ games' = [games EXCEPT ![gameId] = game]
           /\ held' = [held EXCEPT ![gameId] = broadcastState(held[gameId], game)]
           /\ conns' = Bind(ws, gameId, joinerSymbol, UserIdOf(ws))
           /\ last' = Accepted("join", "", gameId, joinerSymbol, NumCells)
           /\ UNCHANGED <<timers, nextId, budget>>

\* the move handlers' guards, with the bug of leaving out the currentTurn test
TurnGuardNoTurn(ws) ==
  IF ~HasGame(ws) THEN "No game"
  ELSE IF games[conns[ws].gameId].gameOver THEN "Game is over"
  ELSE ""

\* the move handlers' guards, with the bug of leaving out the game.gameOver test
TurnGuardNoOver(ws) ==
  IF ~HasGame(ws) THEN "No game"
  ELSE IF games[conns[ws].gameId].currentTurn # conns[ws].symbol THEN "Not your turn"
  ELSE ""

\* the guards the four move handlers share; "" when the request passes them
TurnGuard(ws) ==
  IF ~HasGame(ws) THEN "No game"
  ELSE IF games[conns[ws].gameId].gameOver THEN "Game is over"
  ELSE IF games[conns[ws].gameId].currentTurn # conns[ws].symbol THEN "Not your turn"
  ELSE ""

\* the bounds on moves and draws: one more move that does not end the round, having
\* drawn `drawn` shells
SpendDraw(b, drawn) == [b EXCEPT !.draws = IF @ >= drawn THEN @ - drawn ELSE 0]

SpendMove(drawn) ==
  /\ budget.moves > 0
  /\ budget' = SpendDraw([budget EXCEPT !.moves = @ - 1], drawn)

\* if (checkGameEnd(game)) return; advanceTurn(game);
EndOrAdvance(gameId, game, drawn) ==
  LET ended == checkGameEnd(game) IN
  IF ended.gameOver
  THEN /\ games' = [games EXCEPT ![gameId] = ended]
       /\ held' = [held EXCEPT ![gameId] = SendGameOver(held[gameId], ended, EndReason(game))]
       /\ budget' = SpendDraw(budget, drawn)
  ELSE /\ games' = [games EXCEPT ![gameId] = advanceTurn(game)]
       /\ held' = [held EXCEPT ![gameId] = broadcastState(held[gameId], advanceTurn(game))]
       /\ SpendMove(drawn)

\* advanceTurn(game); with no game-end check
Advance(gameId, game) ==
  /\ games' = [games EXCEPT ![gameId] = advanceTurn(game)]
  /\ held' = [held EXCEPT ![gameId] = broadcastState(held[gameId], advanceTurn(game))]
  /\ SpendMove(0)

(***************************************************************************)
(* case 'place'                                                            *)
(***************************************************************************)
\* the grant of place, with the bug of granting nothing to a pool that is not empty
grantShellCapped(game, symbol, newShell) ==
  IF Len(game.shells[symbol]) >= 1 THEN game
  ELSE [game EXCEPT !.shells[symbol] = Append(@, newShell)]

\* game.shells[symbol].push(newShell)
grantShell(game, symbol, newShell) == [game EXCEPT !.shells[symbol] = Append(@, newShell)]

\* the error place answers with after the turn guards; "" when it goes on
placeError(game, symbol, cell) ==
  IF InvalidCell(cell) THEN "Invalid cell"
  ELSE IF game.board[cell] # Empty THEN "Cell is occupied"
  ELSE ""

Place(ws, cell, newShell) ==
  /\ CanSend(ws)
  /\ LET gameId == conns[ws].gameId
         symbol == conns[ws].symbol
     IN
     IF TurnGuard(ws) # "" THEN Reject("place", TurnGuard(ws))
     ELSE IF placeError(games[gameId], symbol, cell) # ""
     THEN Reject("place", placeError(games[gameId], symbol, cell))
     ELSE
       LET placed == processPlacement(games[gameId], symbol, cell)
           game == grantShell(placed, symbol, newShell)
       IN  /\ EndOrAdvance(gameId, game, 1)
           /\ last' = Accepted("place",
                               IF mineTriggered(games[gameId], symbol, cell) THEN "mine" ELSE "",
                               gameId, symbol, cell)
           /\ UNCHANGED <<conns, timers, nextId>>

\* useMine's test of both players' mines, with the bug of testing only the mover's
cellHasMineOwnOnly(game, symbol, cell) == Includes(game.mines[symbol], cell)

\* game.mines[symbol].includes(cell) || game.mines[opponent(symbol)].includes(cell)
cellHasMine(game, symbol, cell) ==
  Includes(game.mines[symbol], cell) \/ Includes(game.mines[opponent(symbol)], cell)

\* the validation of useMine, with the bug of leaving out the test that the cell is empty
useMineErrorAnyCell(game, symbol, cell) ==
  IF IndexOf(game.shells[symbol], "mine") = 0 THEN "You have no Mine shell"
  ELSE IF InvalidCell(cell) THEN "Invalid cell"
  ELSE IF cellHasMine(game, symbol, cell) THEN "Cell already has a mine"
  ELSE ""

\* the error useMine answers with after the turn guards; "" when it goes on
useMineError(game, symbol, cell) ==
  IF IndexOf(game.shells[symbol], "mine") = 0 THEN "You have no Mine shell"
  ELSE IF InvalidCell(cell) THEN "Invalid cell"
  ELSE IF game.board[cell] # Empty THEN "Cell must be empty"
  ELSE IF cellHasMine(game, symbol, cell) THEN "Cell already has a mine"
  ELSE ""

(***************************************************************************)
(* case 'useMine'                                                          *)
(***************************************************************************)
UseMine(ws, cell) ==
  /\ CanSend(ws)
  /\ LET gameId == conns[ws].gameId
         symbol == conns[ws].symbol
     IN
     IF TurnGuard(ws) # "" THEN Reject("useMine", TurnGuard(ws))
     ELSE IF useMineError(games[gameId], symbol, cell) # ""
     THEN Reject("useMine", useMineError(games[gameId], symbol, cell))
     ELSE
       LET mineIdx == IndexOf(games[gameId].shells[symbol], "mine")
           game == [games[gameId] EXCEPT
                      !.shells[symbol] = Splice(@, mineIdx),
                      !.mines[symbol] = Append(@, cell)]
       IN  /\ Advance(gameId, game)
           /\ last' = Accepted("useMine", "", gameId, symbol, cell)
           /\ UNCHANGED <<conns, timers, nextId>>

(***************************************************************************)
(* case 'useShovel'                                                        *)
(***************************************************************************)
\* the error useShovel answers with after the turn guards; "" when it goes on
useShovelError(game, symbol, cell) ==
  IF IndexOf(game.shells[symbol], "shovel") = 0 THEN "You have no Shovel shell"
  ELSE IF InvalidCell(cell) THEN "Invalid cell"
  ELSE IF game.board[cell] # opponent(symbol) THEN "Not an opponent cell"
  ELSE ""

UseShovel(ws, cell) ==
  /\ CanSend(ws)
  /\ LET gameId == conns[ws].gameId
         symbol == conns[ws].symbol
         opp == opponent(symbol)
     IN
     IF TurnGuard(ws) # "" THEN Reject("useShovel", TurnGuard(ws))
     ELSE IF useShovelError(games[gameId], symbol, cell) # ""
     THEN Reject("useShovel", useShovelError(games[gameId], symbol, cell))
     ELSE
       LET shovelIdx == IndexOf(games[gameId].shells[symbol], "shovel")
           game == [games[gameId] EXCEPT
                      !.shells[symbol] = Splice(@, shovelIdx),
                      !.board[cell] = Empty]
       IN  /\ Advance(gameId, game)
           /\ last' = Accepted("useShovel", "", gameId, symbol, cell)
           /\ UNCHANGED <<conns, timers, nextId>>

\* useFlip's trial: the board with the flip applied, before the revert
FlipTrial(game, symbol, cell) == [game EXCEPT !.board[cell] = symbol]

\* useFlip's revert, with the bug of leaving the trial flip on the board
FlipRevertNone(game, symbol, cell) == game

\* game.board[cell] = opp; // revert
FlipRevert(game, symbol, cell) == [game EXCEPT !.board[cell] = opponent(symbol)]

\* useFlip's test of the trial, with the bug of comparing with the opponent's symbol
wouldWinOpponent(game, symbol, cell) ==
  LET w == checkWin(FlipTrial(game, symbol, cell).board) IN
  w # NoWin /\ w.winner = opponent(symbol)

\* wouldWin && wouldWin.winner === symbol
wouldWin(game, symbol, cell) ==
  LET w == checkWin(FlipTrial(game, symbol, cell).board) IN w # NoWin /\ w.winner = symbol

(***************************************************************************)
(* case 'useFlip'                                                          *)
(***************************************************************************)
\* the error useFlip answers with after the turn guards; "" when it goes on to the
\* trial flip
useFlipError(game, symbol, cell) ==
  IF IndexOf(game.shells[symbol], "flip") = 0 THEN "You have no Flip shell"
  ELSE IF InvalidCell(cell) THEN "Invalid cell"
  ELSE IF game.board[cell] # opponent(symbol) THEN "Not an opponent cell"
  ELSE ""

UseFlip(ws, cell) ==
  /\ CanSend(ws)
  /\ LET gameId == conns[ws].gameId
         symbol == conns[ws].symbol
         opp == opponent(symbol)
     IN
     IF TurnGuard(ws) # "" THEN Reject("useFlip", TurnGuard(ws))
     ELSE IF useFlipError(games[gameId], symbol, cell) # ""
     THEN Reject("useFlip", useFlipError(games[gameId], symbol, cell))
     ELSE
       LET reverted == FlipRevert(FlipTrial(games[gameId], symbol, cell), symbol, cell)
       IN
       IF wouldWin(games[gameId], symbol, cell)
       THEN /\ budget.net > 0
            /\ budget' = [budget EXCEPT !.net = @ - 1]
            /\ games' = [games EXCEPT ![gameId] = reverted]
            /\ last' = Rejected("useFlip", "wouldWin")
            /\ UNCHANGED <<conns, timers, nextId, held>>
       ELSE
         LET flipIdx == IndexOf(reverted.shells[symbol], "flip")
             game == [reverted EXCEPT
                        !.shells[symbol] = Splice(@, flipIdx),
                        !.board[cell] = symbol]
         IN  /\ EndOrAdvance(gameId, game, 0)
             /\ last' = Accepted("useFlip", "", gameId, symbol, cell)
             /\ UNCHANGED <<conns, timers, nextId>>

\* the restart handler's reset: seats swapped on a coin flip, the round cleared
SwapSeats(game, swap) ==
  IF swap
  THEN [game EXCEPT !.players = [s \in Symbols |-> game.players[opponent(s)]]]
  ELSE game

ResetRound(game, firstPlayer) ==
  [game EXCEPT
     !.board = [c \in Cells |-> Empty],
     !.shells = [s \in Symbols |-> <<>>],
     !.mines = [s \in Symbols |-> <<>>],
     !.gameOver = FALSE,
     !.winner = Null,
     !.winCells = <<>>,
     !.restartVotes = [s \in Symbols |-> FALSE],
     !.firstPlayer = firstPlayer,
     !.currentTurn = firstPlayer]

\* the restart handler's test of the votes, with the bug of resetting on one vote
bothVotedEither(game) == game.restartVotes["X"] \/ game.restartVotes["O"]

\* game.restartVotes.X && game.restartVotes.O
bothVoted(game) == game.restartVotes["X"] /\ game.restartVotes["O"]

\* game.players[sym].ws._symbol = sym, for sym of ['X', 'O'] in that order
SetSymbol(cs, game, sym) ==
  IF game.players[sym] # NoPlayer /\ game.players[sym].ws # NoWs
  THEN [cs EXCEPT ![game.players[sym].ws].symbol = sym]
  ELSE cs

UpdateWsMetadata(cs, game, swap) ==
  IF swap THEN SetSymbol(SetSymbol(cs, game, "X"), game, "O") ELSE cs

(***************************************************************************)
(* case 'restart'                                                          *)
(***************************************************************************)
Restart(ws, swap, firstPlayer) ==
  /\ CanSend(ws)
  /\ LET gameId == conns[ws].gameId
         symbol == conns[ws].symbol
     IN
     IF ~HasGame(ws) THEN Reject("restart", "No game")
     ELSE IF ~games[gameId].gameOver THEN Reject("restart", "Game is not over")
     ELSE
       LET voted == [games[gameId] EXCEPT !.restartVotes[symbol] = TRUE] IN
       IF bothVoted(voted)
       THEN LET game == ResetRound(SwapSeats(voted, swap), firstPlayer) IN
            /\ games' = [games EXCEPT ![gameId] = game]
            /\ conns' = UpdateWsMetadata(conns, game, swap)
            /\ held' = [held EXCEPT ![gameId] = broadcastState(held[gameId], game)]
            /\ last' = Accepted("restart", "reset", gameId, symbol, NumCells)
            /\ UNCHANGED <<timers, nextId, budget>>
       ELSE /\ games' = [games EXCEPT ![gameId] = voted]
            /\ last' = Accepted("restart", "vote", gameId, symbol, NumCells)
            /\ UNCHANGED <<conns, timers, nextId, budget, held>>

\* the seat whose userId matches, X first; Null when none does
reconnectSymbol(game, userId) ==
  IF game.players["X"] # NoPlayer /\ game.players["X"].userId = userId THEN "X"
  ELSE IF game.players["O"] # NoPlayer /\ game.players["O"].userId = userId THEN "O"
  ELSE Null

\* the reconnect handler's replay, with the bug of leaving out the gameOver payload
ReplayStateOnly(game, sym) ==
  IF game.currentTurn # Null \/ game.gameOver
  THEN Receive(NoView, buildGameState(game, sym))
  ELSE NoView

\* the payloads the reconnect handler replays to the socket, as the socket holds them
Replay(game, sym) ==
  LET v1 == IF game.currentTurn # Null \/ game.gameOver
            THEN Receive(NoView, buildGameState(game, sym))
            ELSE NoView
  IN  IF (game.currentTurn # Null \/ game.gameOver) /\ game.gameOver
      THEN Receive(v1, GameOverPayload(game, "reconnect_reveal", sym))
      ELSE v1

\* close the old socket if it is still connected
Kick(cs, oldWs, ws) ==
  IF oldWs # NoWs /\ oldWs # ws /\ cs[oldWs].readyState = OPEN
  THEN [cs EXCEPT ![oldWs].gameId = NoGame, ![oldWs].readyState = CLOSING]
  ELSE cs

(***************************************************************************)
(* case 'reconnect'                                                        *)
(***************************************************************************)
Reconnect(ws, gameId) ==
  /\ CanSend(ws)
  /\ LET userId == UserIdOf(ws) IN
     IF gameId \notin DOMAIN games THEN Reject("reconnect", "Game not found")
     ELSE IF reconnectSymbol(games[gameId], userId) = Null
     THEN Reject("reconnect", "Not a player in this game")
     ELSE
       LET sym == reconnectSymbol(games[gameId], userId)
           oldWs == games[gameId].players[sym].ws
           kicked == Kick(conns, oldWs, ws)
           game == [games[gameId] EXCEPT !.players[sym].ws = ws]
       IN  /\ games' = [games EXCEPT ![gameId] = game]
           /\ conns' = [kicked EXCEPT ![ws].gameId = gameId, ![ws].symbol = sym,
                                      ![ws].userId = userId]
           /\ last' = Event("reconnect", "ok", "", gameId, sym, NumCells,
                            IF conns[ws].readyState = OPEN THEN Replay(game, sym) ELSE NoView)
           /\ budget.net > 0
           /\ budget' = [budget EXCEPT !.net = @ - 1]
           /\ UNCHANGED <<timers, nextId, held>>

(***************************************************************************)
(* The peer closes the socket or the connection is lost: the socket leaves *)
(* OPEN and delivers no further message; its 'close' event is emitted in a *)
(* later turn of the event loop.                                           *)
(***************************************************************************)
BeginClose(ws) ==
  /\ conns[ws].readyState = OPEN
  /\ conns' = [conns EXCEPT ![ws].readyState = CLOSING, ![ws].inbound = FALSE]
  /\ last' = Accepted("closing", "", NoGame, Null, NumCells)
  /\ budget.net > 0
  /\ budget' = [budget EXCEPT !.net = @ - 1]
  /\ UNCHANGED <<games, timers, nextId, held>>

\* the close handler's write, with the bug of passing the turn on as well
DetachPassesTurn(game, symbol) ==
  IF game.players[symbol] # NoPlayer
  THEN [game EXCEPT !.players[symbol].ws = NoWs,
                    !.currentTurn = IF @ = symbol THEN opponent(symbol) ELSE @]
  ELSE game

\* the close handler's write to the game: the seat's socket is cleared
Detach(game, symbol) ==
  IF game.players[symbol] # NoPlayer
  THEN [game EXCEPT !.players[symbol].ws = NoWs]
  ELSE game

\* the liveness test of tryCleanupGame, with the bug of looking at seat X for both seats
ConnectedSeatX(game, sym) ==
  /\ game.players["X"] # NoPlayer
  /\ game.players["X"].ws # NoWs
  /\ conns[game.players["X"].ws].readyState = OPEN

\* game.players[sym] && game.players[sym].ws && game.players[sym].ws.readyState === 1
Connected(game, sym) ==
  /\ game.players[sym] # NoPlayer
  /\ game.players[sym].ws # NoWs
  /\ conns[game.players[sym].ws].readyState = OPEN

\* some seat of the game has a live connection
AnyConnected(game) == Connected(game, "X") \/ Connected(game, "O")

(***************************************************************************)
(* ws.on('close')                                                          *)
(***************************************************************************)
CloseEvent(ws) ==
  /\ conns[ws].readyState = CLOSING
  /\ LET gameId == conns[ws].gameId
         symbol == conns[ws].symbol
         closed == [conns EXCEPT ![ws].readyState = CLOSED, ![ws].inbound = FALSE]
     IN
     IF gameId = NoGame \/ gameId \notin DOMAIN games
     THEN /\ conns' = closed
          /\ last' = Accepted("close", "", NoGame, Null, NumCells)
          /\ UNCHANGED <<games, timers, nextId, budget, held>>
     ELSE /\ conns' = closed
          /\ games' = [games EXCEPT ![gameId] = Detach(@, symbol)]
          /\ timers' = [timers EXCEPT
                          ![gameId] = Append(@, AnyConnected(Detach(games[gameId], symbol)))]
          /\ last' = Accepted("close", "", gameId, symbol, NumCells)
          /\ UNCHANGED <<nextId, budget, held>>

(***************************************************************************)
(* A cleanup timer set by a close event expires: tryCleanupGame(gameId).   *)
(***************************************************************************)
tryCleanupGame(gameId) ==
  /\ timers[gameId] # <<>>
  /\ timers' = [timers EXCEPT ![gameId] = Tail(@)]
  /\ IF gameId \in DOMAIN games
        /\ ~Connected(games[gameId], "X") /\ ~Connected(games[gameId], "O")
     THEN /\ games' = [g \in DOMAIN games \ {gameId} |-> games[g]]
          /\ held' = [g \in DOMAIN held \ {gameId} |-> held[g]]
          /\ last' = Accepted("cleanup", "deleted", gameId, Null, NumCells)
     ELSE /\ last' = Accepted("cleanup", "", gameId, Null, NumCells)
          /\ UNCHANGED <<games, held>>
  /\ UNCHANGED <<conns, nextId, budget>>

(***************************************************************************)
(* The next-state relation: one disjunct per event.                        *)
(***************************************************************************)
\* A rejected request changes nothing, so what can follow it is what can follow the
\* state before it: the model follows a behaviour up to its first rejected request.
Running == last.res # "rejected"

\* the kinds the next draw of generateRandomShell may return
Draws == IF budget.draws > 0 THEN ShellKinds ELSE {SHELL_TYPES[Len(SHELL_TYPES)]}

\* Sockets come into use in the order of their numbers: a socket sends its first
\* request once every socket before it has been bound to a game.
InUse(ws) == \A c \in Conns : c < ws => conns[c].userId # Null

Next ==
  \/ \E ws \in Conns, sym \in Symbols : Running /\ InUse(ws) /\ nextId < MaxGames /\ Create(ws, sym)
  \/ \E ws \in Conns, g \in GameIds, first \in Symbols : Running /\ InUse(ws) /\ Join(ws, g, first)
  \/ \E ws \in Conns, cell \in ReqCells, sh \in Draws : Running /\ InUse(ws) /\ Place(ws, cell, sh)
  \/ \E ws \in Conns, cell \in ReqCells : Running /\ InUse(ws) /\ UseMine(ws, cell)
  \/ \E ws \in Conns, cell \in ReqCells : Running /\ InUse(ws) /\ UseShovel(ws, cell)
  \/ \E ws \in Conns, cell \in ReqCells : Running /\ InUse(ws) /\ UseFlip(ws, cell)
  \/ \E ws \in Conns, swap \in BOOLEAN, first \in Symbols : Running /\ InUse(ws) /\ Restart(ws, swap, first)
  \/ \E ws \in Conns, g \in GameIds : Running /\ InUse(ws) /\ Reconnect(ws, g)
  \/ \E ws \in Conns : Running /\ conns[ws].userId # Null /\ BeginClose(ws)
  \/ \E ws \in Conns : Running /\ CloseEvent(ws)
  \/ \E g \in GameIds : Running /\ tryCleanupGame(g)

Spec == Init /\ [][Next]_vars

(***************************************************************************)
(* What the claims speak of, stated without the handlers' own helpers.     *)
(***************************************************************************)
\* the 8 lines of the 3x3 board: rows, columns, diagonals
Lines ==
  {{3 * r, 3 * r + 1, 3 * r + 2} : r \in 0 .. 2}
    \cup {{c, c + 3, c + 6} : c \in 0 .. 2}
    \cup {{0, 4, 8}, {2, 4, 6}}

\* symbol s holds every cell of some line
HasLine(board, s) == \E L \in Lines : \A c \in L : board[c] = s

Range(seq) == {seq[i] : i \in 1 .. Len(seq)}

\* the games that are live before and after the step
Both == DOMAIN games \cap DOMAIN games'

MoveTypes == {"place", "useMine", "useShovel", "useFlip"}

\* the step is an accepted move on game g (a place that sets off a mine included)
MoveOn(g) == last'.res = "ok" /\ last'.type \in MoveTypes /\ last'.game = g

\* the step is the restart handler's reset of game g
ResetOf(g) == last'.res = "ok" /\ last'.type = "restart" /\ last'.reason = "reset" /\ last'.game = g

(***************************************************************************)
(* C1: in a round the turn passes to the other symbol with every accepted  *)
(* move (place, useMine, useShovel, useFlip) that does not end the game;   *)
(* the mover is the symbol whose turn it was; the turn changes in no other *)
(* step of a round (only join and the restart reset set it anew), and it   *)
(* never changes while the game is over.                                   *)
(***************************************************************************)
C1_TurnAlternates ==
  [][\A g \in Both :
       LET a == games[g]
           b == games'[g]
       IN  /\ (MoveOn(g) /\ ~b.gameOver) =>
                 /\ a.currentTurn = last'.symbol
                 /\ b.currentTurn = opponent(a.currentTurn)
           /\ (MoveOn(g) /\ b.gameOver) => b.currentTurn = a.currentTurn
           /\ (a.gameOver /\ b.gameOver) => b.currentTurn = a.currentTurn
           /\ (b.currentTurn # a.currentTurn) =>
                 \/ MoveOn(g) /\ ~a.gameOver /\ ~b.gameOver
                 \/ last'.res = "ok" /\ last'.type = "join" /\ last'.game = g
                 \/ ResetOf(g)]_vars

\* a power-up has just been used and the turn has passed to the other symbol
C1_Witness ==
  /\ last.res = "ok"
  /\ last.type \in {"useMine", "useShovel", "useFlip"}
  /\ last.game \in DOMAIN games
  /\ games[last.game].currentTurn = opponent(last.symbol)

\* socket ws asks to flip cell, an opponent's coin, it is its turn, it holds a flip
\* shell, and the flipped coin would complete a line of its symbol
FlipCompletesLine(ws, cell) ==
  /\ CanSend(ws)
  /\ conns[ws].gameId \in DOMAIN games
  /\ LET game == games[conns[ws].gameId]
         sym == conns[ws].symbol
     IN  /\ ~game.gameOver
         /\ game.currentTurn = sym
         /\ "flip" \in Range(game.shells[sym])
         /\ game.board[cell] = opponent(sym)
         /\ HasLine([game.board EXCEPT ![cell] = sym], sym)

(***************************************************************************)
(* C2: a useFlip on an opponent's coin that would complete a line for the  *)
(* mover is never accepted; it is answered success: false, reason wouldWin,*)
(* and the registry (board, shells, mines, turn of every game), the        *)
(* sockets, the timers and what the seats hold are as before the request.  *)
(***************************************************************************)
C2_FlipWouldWinRejected ==
  [][/\ \A ws \in Conns, cell \in Cells :
          (/\ FlipCompletesLine(ws, cell)
           /\ last'.type = "useFlip"
           /\ last'.game = conns[ws].gameId
           /\ last'.symbol = conns[ws].symbol
           /\ last'.cell = cell) => last'.res # "ok"
     /\ (last'.res = "ok" /\ last'.type = "useFlip" /\ last'.game \in DOMAIN games')
           => ~HasLine(games'[last'.game].board, last'.symbol)
     /\ (last'.res = "rejected" /\ last'.reason = "wouldWin")
           => /\ games' = games
              /\ conns' = conns
              /\ timers' = timers
              /\ held' = held
              /\ \E ws \in Conns, cell \in Cells : FlipCompletesLine(ws, cell)]_vars

\* a flip has just been rejected with wouldWin, and the flip would still win
C2_Witness ==
  /\ last.res = "rejected"
  /\ last.type = "useFlip"
  /\ last.reason = "wouldWin"
  /\ \E ws \in Conns, cell \in Cells : FlipCompletesLine(ws, cell)

(***************************************************************************)
(* C3: a place on a cell that carries a trap of the opponent sets it off:  *)
(* every cell the mover owned is Empty afterwards, every other cell is     *)
(* unchanged (the opponent's coins stay, the triggering cell stays Empty), *)
(* the opponent's traps have lost exactly the trap on that cell and the    *)
(* mover's own traps are unchanged.                                        *)
(***************************************************************************)
C3_TrapTrigger ==
  [][\A g \in Both :
       (MoveOn(g) /\ last'.type = "place") =>
         LET a == games[g]
             b == games'[g]
             s == last'.symbol
             o == opponent(last'.symbol)
             c == last'.cell
         IN  /\ (last'.reason = "mine") <=> (c \in Range(a.mines[o]))
             /\ (last'.reason = "mine") =>
                  /\ \A i \in Cells : b.board[i] = IF a.board[i] = s THEN Empty ELSE a.board[i]
                  /\ b.board[c] = Empty
                  /\ Range(b.mines[o]) = Range(a.mines[o]) \ {c}
                  /\ Len(b.mines[o]) = Len(a.mines[o]) - 1
                  /\ b.mines[s] = a.mines[s]]_vars

\* a trap has just gone off under a mover; the opponent still has a coin on the board,
\* the mover has none, and the trap is gone
C3_Witness ==
  /\ last.res = "ok"
  /\ last.type = "place"
  /\ last.reason = "mine"
  /\ last.game \in DOMAIN games
  /\ \A i \in Cells : games[last.game].board[i] # last.symbol
  /\ \E i \in Cells : games[last.game].board[i] = opponent(last.symbol)
  /\ last.cell \notin Range(games[last.game].mines[opponent(last.symbol)])

(***************************************************************************)
(* C4: no board position carries more than one trap, counted over both     *)
(* players' trap sets; useMine is accepted only on a cell that carried no  *)
(* trap of either player.                                                  *)
(***************************************************************************)
C4_OneTrapPerCell ==
  \A g \in DOMAIN games :
    LET all == games[g].mines["X"] \o games[g].mines["O"] IN
    \A i, j \in 1 .. Len(all) : all[i] = all[j] => i = j

\* a useMine has just been turned down because the cell already carries a trap
C4_Witness ==
  /\ last.res = "rejected"
  /\ last.type = "useMine"
  /\ last.reason = "Cell already has a mine"
  /\ \E g \in DOMAIN games : Len(games[g].mines["X"]) + Len(games[g].mines["O"]) > 0

\* the step is a place by the opponent of s on game g that sets off one of s's traps
TriggeredBy(g, s) ==
  /\ MoveOn(g)
  /\ last'.type = "place"
  /\ last'.symbol = opponent(s)
  /\ last'.cell \in Range(games[g].mines[s])

\* the step takes a trap out of the trap set of symbol s in game g
LosesTrap(g, s) == Range(games[g].mines[s]) \ Range(games'[g].mines[s]) # {}

\* C5 as the specification states it: a trap leaves a symbol's trap set only in a
\* step where the opponent sets it off; the restart reset is not such a step
C5_Original ==
  [][\A g \in Both, s \in Symbols : LosesTrap(g, s) => TriggeredBy(g, s)]_vars

(***************************************************************************)
(* C5: a trap leaves a symbol's trap set only in a step where the opponent *)
(* sets it off by placing on it, or in the restart handler's reset of the  *)
(* round, which empties both trap sets; no other accepted or rejected      *)
(* request, and no close or reconnect, removes a trap.                     *)
(***************************************************************************)
C5_TrapsLeaveByTriggerOrReset ==
  [][\A g \in Both, s \in Symbols :
       LosesTrap(g, s) =>
         \/ TriggeredBy(g, s)
         \/ /\ ResetOf(g)
            /\ games[g].gameOver
            /\ \A t \in Symbols : games'[g].mines[t] = <<>>]_vars

\* the round is over with a trap still armed and one seat has voted to restart: the
\* other seat's vote resets the round and takes the trap away
C5_Witness ==
  \E g \in DOMAIN games :
    /\ games[g].gameOver
    /\ \E s \in Symbols : games[g].mines[s] # <<>>
    /\ \E s \in Symbols : games[g].restartVotes[s] /\ ~games[g].restartVotes[opponent(s)]
    /\ last.type = "restart"

(***************************************************************************)
(* The evaluation of the game end as a function of the board: every board  *)
(* of the 3^9, and one step that applies checkGameEnd to it.               *)
(***************************************************************************)
AllBoards == [Cells -> Symbols \cup {Empty}]

\* a game with both seats filled whose board is `board`
GameWithBoard(board) ==
  [createGameState(1) EXCEPT
     !.board = board,
     !.players = [s \in Symbols |->
                    [ws |-> IF s = "X" THEN 1 ELSE 2,
                     username |-> UsernameOf(IF s = "X" THEN 1 ELSE 2),
                     userId |-> UserIdOf(IF s = "X" THEN 1 ELSE 2)]],
     !.firstPlayer = "X",
     !.currentTurn = "X"]

InitEval ==
  /\ games \in {(1 :> GameWithBoard(board)) : board \in AllBoards}
  /\ conns = [c \in Conns |->
               [readyState |-> OPEN, inbound |-> TRUE,
                gameId |-> IF c <= 2 THEN 1 ELSE NoGame,
                symbol |-> IF c = 1 THEN "X" ELSE IF c = 2 THEN "O" ELSE Null,
                userId |-> IF c <= 2 THEN UserIdOf(c) ELSE Null]]
  /\ timers = [g \in GameIds |-> <<>>]
  /\ nextId = 1
  /\ budget = [moves |-> 0, net |-> 0, draws |-> 0]
  /\ held = (1 :> [s \in Symbols |-> NoView])
  /\ last = Accepted("listen", "", NoGame, Null, NumCells)

\* checkGameEnd(game) on the board as it stands
Evaluate ==
  /\ last.type = "listen"
  /\ LET game == checkGameEnd(games[1]) IN
     /\ games' = [games EXCEPT ![1] = game]
     /\ held' = IF game.gameOver
                THEN [held EXCEPT ![1] = SendGameOver(held[1], game, EndReason(game))]
                ELSE held
     /\ last' = Accepted("checkGameEnd", IF game.gameOver THEN EndReason(game) ELSE "",
                         1, Null, NumCells)
  /\ UNCHANGED <<conns, timers, nextId, budget>>

NextEval == Evaluate

SpecEval == InitEval /\ [][NextEval]_vars

\* the place of a line in the order rows top to bottom, columns left to right, the
\* diagonal from cell 0, the diagonal from cell 2
Rank(L) ==
  IF \E r \in 0 .. 2 : L = {3 * r, 3 * r + 1, 3 * r + 2}
  THEN CHOOSE r \in 0 .. 2 : L = {3 * r, 3 * r + 1, 3 * r + 2}
  ELSE IF \E c \in 0 .. 2 : L = {c, c + 3, c + 6}
  THEN 3 + (CHOOSE c \in 0 .. 2 : L = {c, c + 3, c + 6})
  ELSE IF L = {0, 4, 8} THEN 6 ELSE 7

\* line L is held by one symbol
Held(board, L) == \E s \in Symbols : \A c \in L : board[c] = s

(***************************************************************************)
(* C6: once the game end has been evaluated on a board, a draw is declared *)
(* (game over, no winner) iff every cell is non-empty and none of the 8    *)
(* lines is held by one symbol; a win is declared iff some line is held by *)
(* one symbol, the winner is the owner of the first held line and the      *)
(* winning cells are that line; otherwise the game goes on.                *)
(***************************************************************************)
C6_GameEndEvaluation ==
  (last.type = "checkGameEnd") =>
    LET g == games[1]
        full == \A c \in Cells : g.board[c] # Empty
        anyLine == \E L \in Lines : Held(g.board, L)
    IN  /\ (g.gameOver /\ g.winner = Null) <=> (full /\ ~anyLine)
        /\ (g.gameOver /\ g.winner # Null) <=> anyLine
        /\ anyLine =>
             LET W == Range(g.winCells) IN
             /\ g.winner \in Symbols
             /\ W \in Lines
             /\ \A c \in W : g.board[c] = g.winner
             /\ \A L \in Lines : Held(g.board, L) => Rank(W) <= Rank(L)
        /\ ~g.gameOver => g.winner = Null /\ g.winCells = <<>>

\* the evaluation has declared a draw on a full board
C6_Witness ==
  /\ last.type = "checkGameEnd"
  /\ games[1].gameOver
  /\ games[1].winner = Null
  /\ \A c \in Cells : games[1].board[c] # Empty

\* the evaluation has declared a win on a board where both symbols hold a line
C6_WitnessWin ==
  /\ last.type = "checkGameEnd"
  /\ games[1].gameOver
  /\ games[1].winner = "O"
  /\ HasLine(games[1].board, "X")

(***************************************************************************)
(* The projection of a seat's view that the reconnect is to restore: the   *)
(* board, the turn, the phase, the seat's symbol, its shells, the number   *)
(* of the opponent's shells, its mines and, when the round is over, the    *)
(* reveal (both players' shells and mines, the winner, the winning cells). *)
(* The gameOver payload, once received, stands for the board and the phase.*)
(***************************************************************************)
Projection(v) ==
  IF v.gs.type = Null THEN [started |-> FALSE]
  ELSE IF v.go.type = Null
  THEN [started  |-> TRUE,
        board    |-> v.gs.board,
        turn     |-> v.gs.currentTurn,
        finished |-> v.gs.gameOver,
        symbol   |-> v.gs.yourSymbol,
        shells   |-> v.gs.yourShells,
        oppCount |-> v.gs.opponentShellCount,
        mines    |-> v.gs.yourMines,
        reveal   |-> <<>>]
  ELSE [started  |-> TRUE,
        board    |-> v.go.board,
        turn     |-> v.gs.currentTurn,
        finished |-> TRUE,
        symbol   |-> v.go.yourSymbol,
        shells   |-> v.go.shells[v.go.yourSymbol],
        oppCount |-> Len(v.go.shells[opponent(v.go.yourSymbol)]),
        mines    |-> v.go.mines[v.go.yourSymbol],
        reveal   |-> <<v.go.shells, v.go.mines, v.go.winner, v.go.winCells>>]

\* the last event is an accepted reconnect from a socket that is open
Reconnected ==
  /\ last.type = "reconnect"
  /\ last.res = "ok"
  /\ last.game \in DOMAIN games
  /\ games[last.game].players[last.symbol].ws # NoWs
  /\ conns[games[last.game].players[last.symbol].ws].readyState = OPEN

(***************************************************************************)
(* C7: when a reconnect with a matching userId has been accepted from an   *)
(* open socket, the projection of what the handler has replayed to it is   *)
(* the projection of what a connection of that seat holds that received    *)
(* every payload sent to the seat since the game was created.              *)
(***************************************************************************)
C7_ReconnectRestoresView ==
  Reconnected => Projection(last.dv) = Projection(held[last.game][last.symbol])

\* a reconnect has been accepted after the round ended: the replay carries the reveal
C7_Witness ==
  /\ Reconnected
  /\ games[last.game].gameOver
  /\ last.dv.go.type = "gameOver"
  /\ held[last.game][last.symbol].go.type = "gameOver"

\* a reconnect has been accepted in a round in progress after a move was made
C7_WitnessInProgress ==
  /\ Reconnected
  /\ ~games[last.game].gameOver
  /\ last.dv.gs.type = "gameState"
  /\ \E c \in Cells : games[last.game].board[c] # Empty

(***************************************************************************)
(* C8: the winner and the winning cells are set only in the step that ends *)
(* the round and cleared only by the restart reset; while the game is over,*)
(* no step changes the board, the shells, the mines, the winner or the     *)
(* winning cells, except the restart step that records the second of the   *)
(* two seats' votes, which resets the round.                               *)
(***************************************************************************)
C8_OutcomeFrozen ==
  [][\A g \in Both :
       LET a == games[g]
           b == games'[g]
       IN  /\ a.gameOver =>
                \/ /\ b.gameOver
                   /\ b.board = a.board
                   /\ b.shells = a.shells
                   /\ b.mines = a.mines
                   /\ b.winner = a.winner
                   /\ b.winCells = a.winCells
                \/ /\ ResetOf(g)
                   /\ a.restartVotes[opponent(last'.symbol)]
           /\ (b.winner # a.winner \/ b.winCells # a.winCells) =>
                \/ ~a.gameOver /\ b.gameOver /\ MoveOn(g)
                \/ ResetOf(g)
           /\ ~b.gameOver => b.winner = Null /\ b.winCells = <<>>]_vars

\* the round is over and a move has just been turned down for it
C8_Witness ==
  /\ last.res = "rejected"
  /\ last.reason = "Game is over"
  /\ \E g \in DOMAIN games : games[g].gameOver /\ games[g].winner \in Symbols

(***************************************************************************)
(* C9: a restart vote is accepted only while the game is over; a vote that *)
(* is not the second of the two seats' votes records the vote and leaves   *)
(* the game over; the game leaves the over state only in the restart step  *)
(* that finds the other seat's vote recorded, and that step does reset;    *)
(* after the reset the board is all Empty, both players' shells and mines  *)
(* are empty, both votes are false, winner and winning cells are cleared,  *)
(* the game is in progress and the turn is X or O.                         *)
(***************************************************************************)
C9_RestartVote ==
  [][\A g \in Both :
       LET a == games[g]
           b == games'[g]
           vote == last'.res = "ok" /\ last'.type = "restart" /\ last'.game = g
           other == opponent(last'.symbol)
       IN  /\ vote => a.gameOver
           /\ (vote /\ ~a.restartVotes[other]) =>
                /\ b.gameOver
                /\ b.restartVotes = [a.restartVotes EXCEPT ![last'.symbol] = TRUE]
           /\ (vote /\ a.restartVotes[other]) => ~b.gameOver
           /\ (a.gameOver /\ ~b.gameOver) => vote /\ a.restartVotes[other]
           /\ (a.gameOver /\ ~b.gameOver) =>
                /\ \A c \in Cells : b.board[c] = Empty
                /\ \A s \in Symbols : b.shells[s] = <<>> /\ b.mines[s] = <<>>
                /\ \A s \in Symbols : ~b.restartVotes[s]
                /\ b.winner = Null
                /\ b.winCells = <<>>
                /\ b.currentTurn \in Symbols]_vars

\* the second vote has just reset the round
C9_Witness ==
  /\ last.res = "ok"
  /\ last.type = "restart"
  /\ last.reason = "reset"
  /\ last.game \in DOMAIN games
  /\ ~games[last.game].gameOver
  /\ \A c \in Cells : games[last.game].board[c] = Empty

(***************************************************************************)
(* C10: a request that is rejected (answered with an error, with           *)
(* reconnectFailed, or with the wouldWin result of useFlip) leaves the     *)
(* registry and every game in it as they were: board, shells, mines, turn, *)
(* gameOver, winner, votes and seats; the sockets' bindings and the        *)
(* cleanup timers are unchanged as well.                                   *)
(***************************************************************************)
C10_RejectionChangesNothing ==
  [][(last'.res = "rejected") =>
       /\ games' = games
       /\ conns' = conns
       /\ timers' = timers
       /\ nextId' = nextId]_vars

\* a reconnect has just been turned down for a game that is in progress
C10_Witness ==
  /\ last.res = "rejected"
  /\ last.type = "reconnect"
  /\ last.reason = "Not a player in this game"
  /\ \E g \in DOMAIN games : \E c \in Cells : games[g].board[c] # Empty

(***************************************************************************)
(* Two runs that differ only in the cell one trap of `owner` is on: the    *)
(* game as it is, and the game with that trap on another cell that is      *)
(* Empty and carries no trap.                                              *)
(***************************************************************************)
MovedTraps(game, owner) ==
  {[game EXCEPT !.mines[owner][i] = c] :
     i \in 1 .. Len(game.mines[owner]),
     c \in {d \in Cells : /\ game.board[d] = Empty
                          /\ ~Includes(game.mines["X"], d)
                          /\ ~Includes(game.mines["O"], d)}}

\* what the server answers symbol o, whose turn it is, for each request it can make
\* on cell, and the snapshot it builds for o.  A place on a trapped cell is left
\* out: it sets the trap off, which is when the trap may show.
AnswersTo(game, o, cell) ==
  [ place     |-> IF Includes(game.mines[opponent(o)], cell) THEN "trap"
                  ELSE placeError(game, o, cell),
    useMine   |-> useMineError(game, o, cell),
    useShovel |-> useShovelError(game, o, cell),
    useFlip   |-> IF useFlipError(game, o, cell) # "" THEN useFlipError(game, o, cell)
                  ELSE IF wouldWin(game, o, cell) THEN "wouldWin" ELSE "",
    snapshot  |-> buildGameState(game, o) ]

\* cell carries a trap of owner in neither of the two games
Untrapped(a, b, owner, cell) ==
  ~Includes(a.mines[owner], cell) /\ ~Includes(b.mines[owner], cell)

(***************************************************************************)
(* C11: while a round is in progress, what the server sends to a symbol    *)
(* whose turn it is -- its snapshot and the answer to each request it can  *)
(* make -- is the same in the game as it is and in the game with one of    *)
(* the opponent's traps on another cell, unless the request is a place     *)
(* that sets a trap off.                                                   *)
(***************************************************************************)
C11_TrapInvisible ==
  \A g \in DOMAIN games, o \in Symbols :
    (~games[g].gameOver /\ games[g].currentTurn = o) =>
      \A alt \in MovedTraps(games[g], opponent(o)), cell \in ReqCells :
        /\ AnswersTo(games[g], o, cell).snapshot = AnswersTo(alt, o, cell).snapshot
        /\ AnswersTo(games[g], o, cell).useMine = AnswersTo(alt, o, cell).useMine
        /\ AnswersTo(games[g], o, cell).useShovel = AnswersTo(alt, o, cell).useShovel
        /\ AnswersTo(games[g], o, cell).useFlip = AnswersTo(alt, o, cell).useFlip
        /\ Untrapped(games[g], alt, opponent(o), cell) =>
             AnswersTo(games[g], o, cell).place = AnswersTo(alt, o, cell).place

\* after the step, socket ws can send a request and is bound to game g as symbol s
SeatSocket(ws, g, s) ==
  conns'[ws].inbound /\ conns'[ws].gameId = g /\ conns'[ws].symbol = s

(***************************************************************************)
(* C12: a place or power-up request changes a match only when it is        *)
(* accepted, the match is the requester's and the requester's symbol is    *)
(* the symbol whose turn it is.  Requests are handled one after the other: *)
(* once a move of a symbol has been applied, a further move request of the *)
(* same symbol is judged against the state the move left and is turned     *)
(* down by the turn guards, while a move request of the other symbol       *)
(* passes them if the round goes on -- so of two requests sent for the     *)
(* same turn at most one is applied as that turn's action.                 *)
(***************************************************************************)
C12_SameTurnRace ==
  [][\A g \in Both :
       LET a == games[g]
           b == games'[g]
       IN  /\ (last'.type \in MoveTypes /\ b # a) =>
                /\ last'.res = "ok"
                /\ last'.game = g
                /\ ~a.gameOver
                /\ last'.symbol = a.currentTurn
           /\ MoveOn(g) =>
                \A ws \in Conns :
                  /\ SeatSocket(ws, g, last'.symbol) => TurnGuard(ws)' # ""
                  /\ (SeatSocket(ws, g, opponent(last'.symbol)) /\ ~b.gameOver)
                        => TurnGuard(ws)' = ""]_vars

\* a move request has just been turned down because it is the other symbol's turn,
\* in a round in which a move has been applied
C12_Witness ==
  /\ last.res = "rejected"
  /\ last.type \in MoveTypes
  /\ last.reason = "Not your turn"
  /\ \E g \in DOMAIN games :
       /\ ~games[g].gameOver
       /\ \E c \in Cells : games[g].board[c] # Empty

(***************************************************************************)
(* One turn late in a round: every board with at least MinCoins coins, no  *)
(* line held and an Empty cell, either symbol on turn, both players        *)
(* holding one shell of each kind, the opponent of the mover with no trap  *)
(* or with one trap on the first Empty cell; then one move request on any  *)
(* cell.  (The boards with fewer coins are those the rounds of Spec reach.)*)
(***************************************************************************)
MinCoins == 6

InProgressBoards ==
  {b \in AllBoards : /\ \A s \in Symbols : ~HasLine(b, s)
                     /\ \E c \in Cells : b[c] = Empty
                     /\ Cardinality({c \in Cells : b[c] # Empty}) >= MinCoins}

\* no trap, or one trap on the first Empty cell of the board
TrapOptions(b) ==
  LET empty == {c \in Cells : b[c] = Empty} IN
  {<<>>} \cup {<<c>> : c \in {d \in empty : \A e \in empty : d <= e}}

GameInTurn(b, t, m) ==
  [GameWithBoard(b) EXCEPT
     !.currentTurn = t,
     !.shells = [s \in Symbols |-> SHELL_TYPES],
     !.mines = [s \in Symbols |-> IF s = opponent(t) THEN m ELSE <<>>]]

InitTurn ==
  /\ games \in UNION {{(1 :> GameInTurn(b, t, m)) : m \in TrapOptions(b)} :
                         b \in InProgressBoards, t \in Symbols}
  /\ conns = [c \in Conns |->
               [readyState |-> OPEN, inbound |-> TRUE,
                gameId |-> IF c <= 2 THEN 1 ELSE NoGame,
                symbol |-> IF c = 1 THEN "X" ELSE IF c = 2 THEN "O" ELSE Null,
                userId |-> IF c <= 2 THEN UserIdOf(c) ELSE Null]]
  /\ timers = [g \in GameIds |-> <<>>]
  /\ nextId = 1
  /\ budget = [moves |-> 1, net |-> 0, draws |-> 0]
  /\ held = (1 :> broadcastState([s \in Symbols |-> NoView], games[1]))
  /\ last = Accepted("listen", "", NoGame, Null, NumCells)

NextTurn ==
  \/ \E ws \in Conns, cell \in Cells, sh \in Draws : Running /\ Place(ws, cell, sh)
  \/ \E ws \in Conns, cell \in Cells : Running /\ UseMine(ws, cell)
  \/ \E ws \in Conns, cell \in Cells : Running /\ UseShovel(ws, cell)
  \/ \E ws \in Conns, cell \in Cells : Running /\ UseFlip(ws, cell)

SpecTurn == InitTurn /\ [][NextTurn]_vars

\* the round of the game is in progress: both seats are filled and it is not over
InProgress(game) ==
  /\ \A s \in Symbols : game.players[s] # NoPlayer
  /\ game.currentTurn \in Symbols
  /\ ~game.gameOver

(***************************************************************************)
(* C13: whenever a round is in progress, no line of the board is held by   *)
(* one symbol and the board has an Empty cell; so after every move --      *)
(* place, useMine, useShovel, useFlip -- a board with a held line or with  *)
(* no Empty cell has its game over.  After a move that leaves the round in *)
(* progress the turn is the other symbol's; after one that ends it the     *)
(* turn has not moved.                                                     *)
(***************************************************************************)
C13_InProgressBoard ==
  \A g \in DOMAIN games :
    /\ InProgress(games[g]) =>
         /\ \A s \in Symbols : ~HasLine(games[g].board, s)
         /\ \E c \in Cells : games[g].board[c] = Empty
    /\ (last.res = "ok" /\ last.type \in MoveTypes /\ last.game = g) =>
         games[g].currentTurn = IF games[g].gameOver THEN last.symbol
                                ELSE opponent(last.symbol)

\* a place on the last Empty cell has ended the round in a draw
C13_Witness ==
  /\ last.res = "ok"
  /\ last.type = "place"
  /\ games[1].gameOver
  /\ games[1].winner = Null
  /\ \A c \in Cells : games[1].board[c] # Empty

\* a shovel has been used on a board with one Empty cell and the round goes on
C13_WitnessShovel ==
  /\ last.res = "ok"
  /\ last.type = "useShovel"
  /\ InProgress(games[1])
  /\ Cardinality({c \in Cells : games[1].board[c] = Empty}) = 2

(***************************************************************************)
(* The server under connection loss: the handlers of Spec, with more       *)
(* network events (connections lost, reconnects, rejected requests) and    *)
(* fewer moves in a behaviour.                                             *)
(***************************************************************************)
NetEvents == 3
NetMoves == 1

InitNet ==
  /\ games = <<>>
  /\ conns = [c \in Conns |->
               [readyState |-> OPEN, inbound |-> TRUE, gameId |-> NoGame,
                symbol |-> Null, userId |-> Null]]
  /\ timers = [g \in GameIds |-> <<>>]
  /\ nextId = 0
  /\ budget = [moves |-> NetMoves, net |-> NetEvents, draws |-> 0]
  /\ held = <<>>
  /\ last = Accepted("listen", "", NoGame, Null, NumCells)

SpecNet == InitNet /\ [][Next]_vars

\* the step is the close event of socket w
ClosesIn(w) == conns[w].readyState = CLOSING /\ conns'[w].readyState = CLOSED

(***************************************************************************)
(* C14: a seat that is bound to an open connection loses it only in the    *)
(* close event of that connection itself (a reconnect may replace it, a    *)
(* restart may swap the seats): the close event of an earlier connection   *)
(* of the seat does not unbind it.                                         *)
(***************************************************************************)
C14_SeatStaysBound ==
  [][\A g \in Both, s \in Symbols :
       LET w == games[g].players[s].ws IN
       (/\ w # NoWs
        /\ conns[w].readyState = OPEN
        /\ last'.type \notin {"restart", "reconnect", "cleanup"}
        /\ games'[g].players[s].ws # w) => ClosesIn(w)]_vars

\* seat s of the game has a live connection: its connection field names an open socket
SeatLive(game, s) ==
  /\ game.players[s] # NoPlayer
  /\ game.players[s].ws # NoWs
  /\ conns[game.players[s].ws].readyState = OPEN

C16_EvictionAfterGrace ==
  [][\A g \in DOMAIN games :
       g \notin DOMAIN games' => (timers[g] # <<>> /\ ~Head(timers[g]))]_vars

(***************************************************************************)
(* The registry under connection events only, with cleanup timers that do  *)
(* fire: sockets create and join matches, reconnect, close (also a socket  *)
(* that has sent nothing), and every close event that is due is emitted    *)
(* and every pending timer expires.                                        *)
(***************************************************************************)
\* network events (reconnects, sockets starting to close, rejected requests)
LeakEvents == 3

InitLeak ==
  /\ games = <<>>
  /\ conns = [c \in Conns |->
               [readyState |-> OPEN, inbound |-> TRUE, gameId |-> NoGame,
                symbol |-> Null, userId |-> Null]]
  /\ timers = [g \in GameIds |-> <<>>]
  /\ nextId = 0
  /\ budget = [moves |-> 0, net |-> LeakEvents, draws |-> 0]
  /\ held = <<>>
  /\ last = Accepted("listen", "", NoGame, Null, NumCells)

\* the 'close' event of a socket that has left OPEN is emitted
EmitClose(ws) == Running /\ CloseEvent(ws)

\* a pending cleanup timer of game id g expires
Expire(g) == Running /\ tryCleanupGame(g)

NextLeak ==
  \/ \E ws \in Conns, sym \in Symbols : Running /\ InUse(ws) /\ nextId < MaxIds /\ Create(ws, sym)
  \/ \E ws \in Conns, g \in GameIds, first \in Symbols : Running /\ InUse(ws) /\ Join(ws, g, first)
  \/ \E ws \in Conns, g \in GameIds : Running /\ InUse(ws) /\ Reconnect(ws, g)
  \/ \E ws \in Conns : Running /\ BeginClose(ws)
  \/ \E ws \in Conns : EmitClose(ws)
  \/ \E g \in GameIds : Expire(g)

SpecLeak ==
  /\ InitLeak
  /\ [][NextLeak]_vars
  /\ \A ws \in Conns : WF_vars(EmitClose(ws))
  /\ \A g \in GameIds : WF_vars(Expire(g))

\* every socket has closed and its 'close' event has been handled
AllClosed == \A ws \in Conns : conns[ws].readyState = CLOSED

(***************************************************************************)
(* C17: once every connection has closed (so none is left to reconnect), a *)
(* match that is in the registry is eventually removed from it, whatever   *)
(* create, join and reconnect requests the connections sent before.        *)
(***************************************************************************)
C17_EventuallyEvicted ==
  \A g \in GameIds : (AllClosed /\ g \in DOMAIN games) ~> (g \notin DOMAIN games)

\* games a and b differ at most in the connection field of seat s, which is empty in b
SameButConnection(a, b, s) ==
  /\ b.id = a.id
  /\ b.board = a.board
  /\ b.shells = a.shells
  /\ b.mines = a.mines
  /\ b.currentTurn = a.currentTurn
  /\ b.firstPlayer = a.firstPlayer
  /\ b.gameOver = a.gameOver
  /\ b.winner = a.winner
  /\ b.winCells = a.winCells
  /\ b.restartVotes = a.restartVotes
  /\ b.players[opponent(s)] = a.players[opponent(s)]
  /\ IF a.players[s] = NoPlayer
     THEN b.players[s] = NoPlayer
     ELSE /\ b.players[s] # NoPlayer
          /\ b.players[s].username = a.players[s].username
          /\ b.players[s].userId = a.players[s].userId
          /\ b.players[s].ws = NoWs

(***************************************************************************)
(* C18: the close event of a socket bound to a seat changes nothing in the *)
(* registry but that seat's connection field, which becomes empty: board,  *)
(* shells, traps, turn, phase, outcome, restart votes and both seats'      *)
(* names and user ids are as before, and so is every other match.          *)
(***************************************************************************)
C18_CloseChangesConnectionOnly ==
  [][\A ws \in Conns :
       ClosesIn(ws) =>
         /\ DOMAIN games' = DOMAIN games
         /\ \A g \in DOMAIN games :
              IF g = conns[ws].gameId
              THEN SameButConnection(games[g], games'[g], conns[ws].symbol)
              ELSE games'[g] = games[g]]_vars

\* the player on turn has disconnected in the middle of a round
C18_Witness ==
  /\ last.type = "close"
  /\ last.game \in DOMAIN games
  /\ ~games[last.game].gameOver
  /\ games[last.game].currentTurn = last.symbol
  /\ games[last.game].players[last.symbol].ws = NoWs
  /\ \E c \in Cells : games[last.game].board[c] # Empty

\* the number of shells of kind k in a pool
Count(pool, k) == Cardinality({i \in 1 .. Len(pool) : pool[i] = k})

\* the kind of shell a power-up request spends
KindOf(type) ==
  IF type = "useMine" THEN "mine" ELSE IF type = "useShovel" THEN "shovel" ELSE "flip"

\* pool b is pool a with n more (n = 1) or fewer (n = -1) shells of kind k
PoolChange(a, b, k, n) ==
  /\ Count(a, k) + n >= 0
  /\ \A j \in ShellKinds : Count(b, j) = Count(a, j) + (IF j = k THEN n ELSE 0)
  /\ Len(b) = Len(a) + n

(***************************************************************************)
(* C19: an accepted place, whether it sets off a trap or not, adds exactly *)
(* one shell to the mover's pool; an accepted useMine, useShovel or        *)
(* useFlip removes exactly one shell of its kind from the mover's pool;    *)
(* no accepted move changes the opponent's pool.  Pools are empty when a   *)
(* match is created and after the restart reset and change in no other     *)
(* step, so a pool holds the accepted placements of its symbol in the      *)
(* round less its accepted power-up uses.                                  *)
(***************************************************************************)
C19_PoolAccounting ==
  [][/\ \A g \in Both :
          LET a == games[g].shells
              b == games'[g].shells
              s == last'.symbol
          IN  /\ (MoveOn(g) /\ last'.type = "place") =>
                    /\ \E k \in ShellKinds : PoolChange(a[s], b[s], k, 1)
                    /\ b[opponent(s)] = a[opponent(s)]
              /\ (MoveOn(g) /\ last'.type # "place") =>
                    /\ PoolChange(a[s], b[s], KindOf(last'.type), -1)
                    /\ b[opponent(s)] = a[opponent(s)]
              /\ ResetOf(g) => \A t \in Symbols : b[t] = <<>>
              /\ (~MoveOn(g) /\ ~ResetOf(g)) => b = a
     /\ \A g \in DOMAIN games' \ DOMAIN games :
          \A t \in Symbols : games'[g].shells[t] = <<>>]_vars

\* a place that set off a trap has added a shell to a pool that already held one
C19_Witness ==
  /\ last.type = "place"
  /\ last.res = "ok"
  /\ last.reason = "mine"
  /\ last.game \in DOMAIN games
  /\ Len(games[last.game].shells[last.symbol]) >= 2

\* a power-up has been used while the opponent held a shell
C19_WitnessUse ==
  /\ last.type \in {"useMine", "useShovel", "useFlip"}
  /\ last.res = "ok"
  /\ last.game \in DOMAIN games
  /\ Len(games[last.game].shells[opponent(last.symbol)]) >= 1

(***************************************************************************)
(* A round played over two sockets that stay connected and send only       *)
(* requests that are accepted: long enough for a player to arm a trap and  *)
(* to come back to the trapped cell two turns later.                       *)
(***************************************************************************)
\* accepted moves that do not end the round
PlayMoves == 5

InitPlay ==
  /\ games = <<>>
  /\ conns = [c \in Conns |->
               [readyState |-> OPEN, inbound |-> TRUE, gameId |-> NoGame,
                symbol |-> Null, userId |-> Null]]
  /\ timers = [g \in GameIds |-> <<>>]
  /\ nextId = 0
  /\ budget = [moves |-> PlayMoves, net |-> 0, draws |-> MaxDraws]
  /\ held = <<>>
  /\ last = Accepted("listen", "", NoGame, Null, NumCells)

NextPlay ==
  \/ \E ws \in Conns, sym \in Symbols : InUse(ws) /\ nextId < MaxGames /\ Create(ws, sym)
  \/ \E ws \in Conns, g \in GameIds, first \in Symbols : InUse(ws) /\ Join(ws, g, first)
  \/ \E ws \in Conns, cell \in ReqCells, sh \in Draws : InUse(ws) /\ Place(ws, cell, sh)
  \/ \E ws \in Conns, cell \in ReqCells : InUse(ws) /\ UseMine(ws, cell)
  \/ \E ws \in Conns, cell \in ReqCells : InUse(ws) /\ UseShovel(ws, cell)
  \/ \E ws \in Conns, cell \in ReqCells : InUse(ws) /\ UseFlip(ws, cell)

SpecPlay == InitPlay /\ [][NextPlay]_vars

\* symbol t has a trap armed on cell c of the game
Trapped(game, t, c) == \E i \in 1 .. Len(game.mines[t]) : game.mines[t][i] = c

(***************************************************************************)
(* C20, as stated: in every reachable state every cell that carries an     *)
(* armed trap, of either player, is Empty.                                 *)
(***************************************************************************)
C20_TrappedCellsEmpty ==
  \A g \in DOMAIN games : \A t \in Symbols : \A c \in Cells :
     Trapped(games[g], t, c) => games[g].board[c] = Empty

(***************************************************************************)
(* C20, amended: a trap is armed only on a cell that is Empty and carries  *)
(* no trap, and the cell is Empty after the arming; while the trap stays   *)
(* armed, its cell leaves Empty only by a place of the trap's owner on it  *)
(* (a place of the opponent sets the trap off and leaves the cell Empty).  *)
(***************************************************************************)
C20_TrapArmedOnEmpty ==
  [][\A g \in Both :
       LET a == games[g]
           b == games'[g]
       IN  /\ (MoveOn(g) /\ last'.type = "useMine") =>
                 /\ a.board[last'.cell] = Empty
                 /\ b.board[last'.cell] = Empty
                 /\ \A t \in Symbols : ~Trapped(a, t, last'.cell)
                 /\ b.mines[last'.symbol] = Append(a.mines[last'.symbol], last'.cell)
           /\ \A t \in Symbols, c \in Cells :
                 (/\ Trapped(a, t, c)
                  /\ Trapped(b, t, c)
                  /\ a.board[c] = Empty
                  /\ b.board[c] # Empty)
                   => /\ MoveOn(g)
                      /\ last'.type = "place"
                      /\ last'.symbol = t
                      /\ last'.cell = c
                      /\ b.board[c] = t]_vars

\* a player has placed a coin on the cell of its own armed trap
C20_Witness ==
  /\ last.type = "place"
  /\ last.res = "ok"
  /\ last.game \in DOMAIN games
  /\ Trapped(games[last.game], last.symbol, last.cell)
  /\ games[last.game].board[last.cell] = last.symbol

\* the game records socket w as the connection of seat s
RecordedAt(game, s, w) == game.players[s] # NoPlayer /\ game.players[s].ws = w

\* socket w's own binding is (g, s)
BoundTo(w, g, s) == conns[w].gameId = g /\ conns[w].symbol = s

(***************************************************************************)
(* C21: connection binding and seat binding agree.  In every reachable     *)
(* state a socket that has not been closed is recorded as the connection   *)
(* of seat s of match g if and only if the socket's own binding is (g, s); *)
(* so no socket is held by two seats or two matches, and no seat holds a   *)
(* socket that acts for another seat or match.                             *)
(***************************************************************************)
C21_BindingAgrees ==
  \A g \in DOMAIN games : \A s \in Symbols : \A w \in Conns :
     conns[w].readyState # CLOSED => (RecordedAt(games[g], s, w) <=> BoundTo(w, g, s))

=============================================================================
